---- MODULE Spec2Model ----
(***************************************************************************)
(* A model of the satoyamadogrun backend: the request handlers of main.py  *)
(* over the tables of models.py, the token functions of auth.py and the    *)
(* entry-payload codec of utils.py.                                        *)
(*                                                                         *)
(* The database is the contents of the tables.  A handler runs as one      *)
(* step, except register, whose duplicate check and whose inserts are two  *)
(* steps so that two register calls may interleave.  Time is counted in    *)
(* minutes.                                                                *)
(***************************************************************************)
EXTENDS Integers, Sequences, FiniteSets, TLC

VARIABLES
    users,      \* rows of table "users"
    dogs,       \* rows of table "dogs"
    posts,      \* rows of table "posts"
    comments,   \* rows of table "comments"
    notices,    \* rows of table "notices"
    pending,    \* register calls that passed the duplicate check
    nreg,       \* number of register calls that passed the duplicate check
    last,       \* the last request and its response
    now,        \* datetime.utcnow(), in minutes
    tk,         \* verify_token: the token handed in and the time of the call
    res,        \* verify_token: what it did
    qr,         \* the entry-payload codec: input, text and result
    liking      \* like-post calls: where each is between its read and its write

vars == <<users, dogs, posts, comments, notices, pending, nreg, last, now, tk, res, qr,
          liking>>

---------------------------------------------------------------------------
(* Bounds of the model *)

MaxRegs == 2
MaxDogs == 3
MaxPosts == 2
MaxLikes == 3
MaxComments == 1
MaxNotices == 2
MaxNow == 17
MaxDogIds == 2
MaxCalls == 2

---------------------------------------------------------------------------
(* Inputs *)

TestEmail == "test@example.com"
Emails == {TestEmail, "a@b.com", "c@d.com"}
Passwords == {"pw1", "pw2"}
RegisterPasswords == {"pw2"}
Names == {"pochi", "hana"}

---------------------------------------------------------------------------
(* exceptions.py and the responses of main.py *)

HTTP_200_OK == 200
HTTP_400_BAD_REQUEST == 400
HTTP_401_UNAUTHORIZED == 401
HTTP_404_NOT_FOUND == 404
HTTP_409_CONFLICT == 409
HTTP_500_INTERNAL_SERVER_ERROR == 500
\* No response yet: the request is between two steps.
InProgress == 0

\* main.py raises HTTPException(status_code, detail); an exception that is no
\* HTTPException leaves the handler and is answered with status 500.
DuplicateEmailDetail == "email already registered"
LoginFailedDetail == "email or password incorrect"
DogNotFoundDetail == "dog not found"
PostNotFoundDetail == "post not found"
NoticeNotFoundDetail == "notice not found"
AuthenticationErrorDetail == "authentication failed"
TypeErrorDetail == "TypeError: invalid keyword argument"
IntegrityErrorDetail == "IntegrityError: UNIQUE constraint failed"
OkDetail == "ok"
ValidationErrorDetail == "ValidationError"

---------------------------------------------------------------------------
(* auth.py: passwords *)

\* pwd_context.hash: a salted one-way hash, kept as the pair it is made of.
get_password_hash(password, salt) == [plain |-> password, salt |-> salt]

verify_password(plain_password, hashed_password) ==
    hashed_password.plain = plain_password

---------------------------------------------------------------------------
(* auth.py: tokens *)

SECRET_KEY == "your-secret-key-here"
DefaultExpireMinutes == 15
ACCESS_TOKEN_EXPIRE_MINUTES == 30

\* expires_delta = None, and timedelta(0), which "if expires_delta:" treats alike.
NoDelta == 0
\* A payload without a "sub" claim.
NoSub == "<no sub>"
\* verify_token's None.
None == "<None>"

NoToken == [sub |-> NoSub, exp |-> 0, sig |-> "", form |-> "absent"]

create_access_token(sub, expires_delta, t) ==
    LET expire == IF expires_delta # NoDelta
                  THEN t + expires_delta
                  ELSE t + DefaultExpireMinutes
    IN [sub |-> sub, exp |-> expire, sig |-> SECRET_KEY, form |-> "jwt"]

\* jwt.decode with options={"verify_exp": False}.
jwt_decode_ignoring_exp(token, t) ==
    IF token.form # "jwt" THEN "JWTError"
    ELSE IF token.sig # SECRET_KEY THEN "JWTError"
    ELSE "none"

\* jose.jwt.decode(token, SECRET_KEY, algorithms=[ALGORITHM]): the exception it
\* raises, or "none" when it returns the payload.
jwt_decode(token, t) ==
    IF token.form # "jwt" THEN "JWTError"
    ELSE IF token.sig # SECRET_KEY THEN "JWTError"
    ELSE IF token.exp < t THEN "ExpiredSignatureError"
    ELSE "none"

\* The exception classes "except JWTError" catches: JWTError and its subclasses.
IsJWTError(exc) == exc \in {"JWTError", "ExpiredSignatureError", "JWTClaimsError"}

\* verify_token: [raised |-> an exception left uncaught, value |-> the result].
verify_token(token, t) ==
    LET exc == jwt_decode(token, t) IN
    IF exc = "none"
    THEN [raised |-> FALSE, value |-> IF token.sub = NoSub THEN None ELSE token.sub]
    ELSE IF IsJWTError(exc)
    THEN [raised |-> FALSE, value |-> None]
    ELSE [raised |-> TRUE, value |-> None]

---------------------------------------------------------------------------
(* models.py: the tables *)

\* The attributes of the mapped classes.  Base = declarative_base() gives each
\* class the default constructor, which raises TypeError for a keyword that is
\* not an attribute of the class.
\* models.User with a column "application_date".
UserColumnsWithApplicationDate ==
    {"id", "email", "hashed_password", "full_name", "address", "phone_number",
     "imabari_residency", "application_date", "created_at", "updated_at", "dogs",
     "posts", "comments"}

UserColumns ==
    {"id", "email", "hashed_password", "full_name", "address", "phone_number",
     "imabari_residency", "created_at", "updated_at", "dogs", "posts", "comments"}

DogColumns ==
    {"id", "name", "breed", "weight", "personality", "last_vaccination_date",
     "owner_id", "created_at", "updated_at", "owner"}

DeclarativeAccepts(columns, kwargs) == kwargs \subseteq columns

\* The keywords each constructor call passes.
RegisterUserKwargs ==
    {"email", "hashed_password", "full_name", "address", "phone_number",
     "imabari_residency", "application_date"}

RegisterDogKwargs == {"name", "breed", "weight", "birth_year", "owner_id"}

AddDogKwargs ==
    {"name", "breed", "weight", "personality", "last_vaccination_date", "owner_id"}

DummyUserKwargs ==
    {"email", "hashed_password", "user_name", "owner_name", "dog_name", "dog_breed",
     "dog_gender", "dog_age", "owner_tel", "owner_address", "registration_date",
     "is_approved", "is_admin"}

\* id = Column(Integer, primary_key=True): the next row id.
MaxId(rows) == CHOOSE m \in {r.id : r \in rows} : \A r \in rows : r.id <= m
NewId(rows) == IF rows = {} THEN 1 ELSE MaxId(rows) + 1

\* A row of "users"; reg is the register call that inserted it (0: none).
UserRow(id, email, password, full_name, reg) ==
    [id |-> id, email |-> email, hashed_password |-> get_password_hash(password, id),
     full_name |-> full_name, reg |-> reg]

\* A row of "dogs"; reg is the register call that inserted it (0: none).
DogRow(id, name, owner_id, reg) ==
    [id |-> id, name |-> name, owner_id |-> owner_id, reg |-> reg]

PostRow(id, likes, user_id) == [id |-> id, likes |-> likes, user_id |-> user_id]

CommentRow(id, post_id, user_id) == [id |-> id, post_id |-> post_id, user_id |-> user_id]

NoticeRow(id, read) == [id |-> id, read |-> read]

NoUser == 0

\* db.query(User).filter(User.email == email).first(); email is unique.
UsersByEmail(email) == {u \in users : u.email = email}

---------------------------------------------------------------------------
(* The last request and its response *)

Response(op, status, detail, caller, tok, id, email, password, ret) ==
    [op |-> op, status |-> status, detail |-> detail, caller |-> caller, tok |-> tok,
     id |-> id, email |-> email, password |-> password, ret |-> ret]

NoRequest == Response("none", InProgress, "", NoUser, NoToken, 0, "", "", NoToken)

\* The handlers that declare current_user: User = Depends(get_current_user).
ProtectedOps ==
    {"get_current_user_info", "update_user_profile", "get_user_dogs", "add_dog",
     "update_dog", "delete_dog", "create_post", "like_post", "add_comment"}

\* What a client may send as its bearer token: nothing, a token with a wrong
\* signature, or a token login issues for a stored user.
BearerTokens ==
    {NoToken, [sub |-> TestEmail, exp |-> now + DefaultExpireMinutes, sig |-> "forged", form |-> "jwt"]}
    \cup {create_access_token(u.email, NoDelta, now) : u \in users}

DogIds == 1..(MaxDogs + 1)
PostIds == 1..(MaxPosts + 1)
NoticeIds == 1..MaxNotices

---------------------------------------------------------------------------
(* auth.py: get_current_user, the dependency of the protected handlers.  The *)
(* bearer token is no parameter of it: it looks up the test user.           *)

TestUsers == UsersByEmail(TestEmail)

DummyUser == UserRow(NewId(users), TestEmail, "testpassword", "", 0)

\* User(email=..., user_name=..., ...) raises TypeError before db.add.
DummyUserRaises == ~DeclarativeAccepts(UserColumns, DummyUserKwargs)

\* Table "users" after get_current_user.
UsersAfterGetCurrentUser ==
    IF TestUsers # {} THEN users
    ELSE IF DummyUserRaises THEN users
    ELSE users \cup {DummyUser}

\* The id of the user get_current_user returns; NoUser when it raises.
get_current_user ==
    IF TestUsers # {} THEN (CHOOSE u \in TestUsers : TRUE).id
    ELSE IF DummyUserRaises THEN NoUser
    ELSE DummyUser.id

\* The response when the dependency raises: the handler's body does not run.
DependencyRaised(op, tok, id) ==
    /\ last' = Response(op, HTTP_500_INTERNAL_SERVER_ERROR, TypeErrorDetail,
                        NoUser, tok, id, "", "", NoToken)
    /\ UNCHANGED <<users, dogs, posts, comments, notices>>

---------------------------------------------------------------------------
(* main.py: register *)

\* Lines 52-54: the duplicate check.
register(email, password) ==
    /\ IF UsersByEmail(email) # {}
       THEN /\ last' = Response("register", HTTP_400_BAD_REQUEST, DuplicateEmailDetail,
                                NoUser, NoToken, 0, email, password, NoToken)
            /\ UNCHANGED <<pending, nreg>>
       ELSE /\ nreg < MaxRegs
            /\ nreg' = nreg + 1
            /\ pending' = pending \cup {[rid |-> nreg + 1, email |-> email, password |-> password]}
            /\ last' = Response("register", InProgress, "", NoUser, NoToken,
                                nreg + 1, email, password, NoToken)
    /\ UNCHANGED <<users, dogs, posts, comments, notices, now, tk, res, qr, liking>>

\* Lines 57-83: User(...), add, commit, Dog(...), add, commit, the token.
register_create(r) ==
    LET user == UserRow(NewId(users), r.email, r.password, "pochi", r.rid)
        dog == DogRow(NewId(dogs), "pochi", user.id, r.rid)
        respond(status, detail, ret) ==
            last' = Response("register_create", status, detail, NoUser, NoToken,
                             r.rid, r.email, r.password, ret)
    IN
    /\ r \in pending
    /\ pending' = pending \ {r}
    /\ IF ~DeclarativeAccepts(UserColumns, RegisterUserKwargs)
       THEN \* line 57 raises TypeError
            /\ respond(HTTP_500_INTERNAL_SERVER_ERROR, TypeErrorDetail, NoToken)
            /\ UNCHANGED <<users, dogs>>
       ELSE IF UsersByEmail(r.email) # {}
       THEN \* line 67: email is unique=True, the commit raises IntegrityError
            /\ respond(HTTP_500_INTERNAL_SERVER_ERROR, IntegrityErrorDetail, NoToken)
            /\ UNCHANGED <<users, dogs>>
       ELSE IF ~DeclarativeAccepts(DogColumns, RegisterDogKwargs)
       THEN \* line 67 committed the user; line 71 raises TypeError
            /\ users' = users \cup {user}
            /\ respond(HTTP_500_INTERNAL_SERVER_ERROR, TypeErrorDetail, NoToken)
            /\ UNCHANGED dogs
       ELSE /\ users' = users \cup {user}
            /\ dogs' = dogs \cup {dog}
            /\ respond(HTTP_200_OK, OkDetail, create_access_token(r.email, NoDelta, now))
    /\ UNCHANGED <<posts, comments, notices, nreg, now, tk, res, qr, liking>>

---------------------------------------------------------------------------
(* main.py: login *)

\* "if not user:", without the password.
LoginRejectsUnknownEmailOnly(found, password) == found = {}

\* if not user or not verify_password(request.password, user.hashed_password)
LoginRejects(found, password) ==
    found = {} \/ ~verify_password(password, (CHOOSE u \in found : TRUE).hashed_password)

login(email, password) ==
    LET found == UsersByEmail(email) IN
    /\ IF LoginRejects(found, password)
       THEN last' = Response("login", HTTP_401_UNAUTHORIZED, LoginFailedDetail,
                             NoUser, NoToken, 0, email, password, NoToken)
       ELSE last' = Response("login", HTTP_200_OK, OkDetail, NoUser, NoToken, 0, email,
                             password,
                             create_access_token((CHOOSE u \in found : TRUE).email, NoDelta, now))
    /\ UNCHANGED <<users, dogs, posts, comments, notices, pending, nreg, now, tk, res, qr, liking>>

---------------------------------------------------------------------------
(* main.py: the protected handlers.  Each takes the request's bearer token, *)
(* which the dependency does not read.                                      *)

get_current_user_info(tok) ==
    /\ IF get_current_user = NoUser
       THEN DependencyRaised("get_current_user_info", tok, 0)
       ELSE /\ users' = UsersAfterGetCurrentUser
            /\ last' = Response("get_current_user_info", HTTP_200_OK, OkDetail,
                                get_current_user, tok, get_current_user, "", "", NoToken)
            /\ UNCHANGED <<dogs, posts, comments, notices>>
    /\ UNCHANGED <<pending, nreg, now, tk, res, qr, liking>>

update_user_profile(tok, full_name) ==
    LET after == UsersAfterGetCurrentUser
        me == CHOOSE u \in after : u.id = get_current_user
    IN
    /\ IF get_current_user = NoUser
       THEN DependencyRaised("update_user_profile", tok, 0)
       ELSE /\ users' = (after \ {me}) \cup {[me EXCEPT !.full_name = full_name]}
            /\ last' = Response("update_user_profile", HTTP_200_OK, OkDetail,
                                get_current_user, tok, get_current_user, "", "", NoToken)
            /\ UNCHANGED <<dogs, posts, comments, notices>>
    /\ UNCHANGED <<pending, nreg, now, tk, res, qr, liking>>

get_user_dogs(tok) ==
    /\ IF get_current_user = NoUser
       THEN DependencyRaised("get_user_dogs", tok, 0)
       ELSE /\ users' = UsersAfterGetCurrentUser
            /\ last' = Response("get_user_dogs", HTTP_200_OK, OkDetail,
                                get_current_user, tok, 0, "", "", NoToken)
            /\ UNCHANGED <<dogs, posts, comments, notices>>
    /\ UNCHANGED <<pending, nreg, now, tk, res, qr, liking>>

\* A Dog built without owner_id: the column stays NULL.
AddDogOwnerUnset(current_user) == NoUser

\* owner_id=current_user.id
AddDogOwner(current_user) == current_user

add_dog(tok, name) ==
    /\ Cardinality(dogs) < MaxDogs
    /\ IF get_current_user = NoUser
       THEN DependencyRaised("add_dog", tok, 0)
       ELSE IF ~DeclarativeAccepts(DogColumns, AddDogKwargs)
       THEN /\ users' = UsersAfterGetCurrentUser
            /\ last' = Response("add_dog", HTTP_500_INTERNAL_SERVER_ERROR, TypeErrorDetail,
                                get_current_user, tok, 0, "", "", NoToken)
            /\ UNCHANGED <<dogs, posts, comments, notices>>
       ELSE /\ users' = UsersAfterGetCurrentUser
            /\ dogs' = dogs \cup {DogRow(NewId(dogs), name, AddDogOwner(get_current_user), 0)}
            /\ last' = Response("add_dog", HTTP_200_OK, OkDetail,
                                get_current_user, tok, NewId(dogs), "", "", NoToken)
            /\ UNCHANGED <<posts, comments, notices>>
    /\ UNCHANGED <<pending, nreg, now, tk, res, qr, liking>>

\* db.query(Dog).filter(Dog.id == dog_id), without the owner.
FindDogById(dog_id, owner_id) == {d \in dogs : d.id = dog_id}

\* db.query(Dog).filter(Dog.id == dog_id, Dog.owner_id == current_user.id)
FindDog(dog_id, owner_id) == {d \in dogs : d.id = dog_id /\ d.owner_id = owner_id}

update_dog(tok, dog_id, name) ==
    LET found == FindDog(dog_id, get_current_user)
        dog == CHOOSE d \in found : TRUE
    IN
    /\ IF get_current_user = NoUser
       THEN DependencyRaised("update_dog", tok, dog_id)
       ELSE IF found = {}
       THEN /\ users' = UsersAfterGetCurrentUser
            /\ last' = Response("update_dog", HTTP_404_NOT_FOUND, DogNotFoundDetail,
                                get_current_user, tok, dog_id, "", "", NoToken)
            /\ UNCHANGED <<dogs, posts, comments, notices>>
       ELSE /\ users' = UsersAfterGetCurrentUser
            /\ dogs' = (dogs \ {dog}) \cup {[dog EXCEPT !.name = name]}
            /\ last' = Response("update_dog", HTTP_200_OK, OkDetail,
                                get_current_user, tok, dog_id, "", "", NoToken)
            /\ UNCHANGED <<posts, comments, notices>>
    /\ UNCHANGED <<pending, nreg, now, tk, res, qr, liking>>

delete_dog(tok, dog_id) ==
    LET found == FindDog(dog_id, get_current_user)
        dog == CHOOSE d \in found : TRUE
    IN
    /\ IF get_current_user = NoUser
       THEN DependencyRaised("delete_dog", tok, dog_id)
       ELSE IF found = {}
       THEN /\ users' = UsersAfterGetCurrentUser
            /\ last' = Response("delete_dog", HTTP_404_NOT_FOUND, DogNotFoundDetail,
                                get_current_user, tok, dog_id, "", "", NoToken)
            /\ UNCHANGED <<dogs, posts, comments, notices>>
       ELSE /\ users' = UsersAfterGetCurrentUser
            /\ dogs' = dogs \ {dog}
            /\ last' = Response("delete_dog", HTTP_200_OK, OkDetail,
                                get_current_user, tok, dog_id, "", "", NoToken)
            /\ UNCHANGED <<posts, comments, notices>>
    /\ UNCHANGED <<pending, nreg, now, tk, res, qr, liking>>

\* models.py: the attributes of the Post and Comment classes, and the fields
\* PostResponse and CommentResponse require. from_orm reads every required
\* field from the object and raises when the object lacks one; the exception
\* leaves the handler after the commit and is answered with status 500.
PostAttributes ==
    {"id", "content", "tag", "hashtags", "likes", "user_id", "created_at",
     "updated_at", "user", "comments"}
PostResponseRequired ==
    {"content", "tag", "id", "likes", "user_id", "created_at", "user_name",
     "comments_count"}
CommentAttributes == {"id", "text", "post_id", "user_id", "created_at", "post", "user"}
CommentResponseRequired == {"text", "id", "post_id", "user_id", "created_at", "user_name"}
FromOrmRaises(required, attributes) == ~(required \subseteq attributes)

\* What a handler answers that ends in Response.from_orm(row).
FromOrmStatus(required, attributes) ==
    IF FromOrmRaises(required, attributes)
    THEN HTTP_500_INTERNAL_SERVER_ERROR ELSE HTTP_200_OK
FromOrmDetail(required, attributes) ==
    IF FromOrmRaises(required, attributes) THEN ValidationErrorDetail ELSE OkDetail

create_post(tok) ==
    /\ Cardinality(posts) < MaxPosts
    /\ IF get_current_user = NoUser
       THEN DependencyRaised("create_post", tok, 0)
       ELSE /\ users' = UsersAfterGetCurrentUser
            /\ posts' = posts \cup {PostRow(NewId(posts), 0, get_current_user)}
            /\ last' = Response("create_post",
                                FromOrmStatus(PostResponseRequired, PostAttributes),
                                FromOrmDetail(PostResponseRequired, PostAttributes),
                                get_current_user, tok, NewId(posts), "", "", NoToken)
            /\ UNCHANGED <<dogs, comments, notices>>
    /\ UNCHANGED <<pending, nreg, now, tk, res, qr, liking>>

\* A lookup that takes any stored post for the one asked for.
FindAnyPost(post_id) == posts

\* db.query(Post).filter(Post.id == post_id)
FindPost(post_id) == {p \in posts : p.id = post_id}

\* post.likes += 1
LikesAfterLike(likes) == likes + 1

like_post(tok, post_id) ==
    LET found == FindPost(post_id)
        post == CHOOSE p \in found : TRUE
    IN
    /\ \A p \in found : p.likes < MaxLikes
    /\ IF get_current_user = NoUser
       THEN DependencyRaised("like_post", tok, post_id)
       ELSE IF found = {}
       THEN /\ users' = UsersAfterGetCurrentUser
            /\ last' = Response("like_post", HTTP_404_NOT_FOUND, PostNotFoundDetail,
                                get_current_user, tok, post_id, "", "", NoToken)
            /\ UNCHANGED <<dogs, posts, comments, notices>>
       ELSE /\ users' = UsersAfterGetCurrentUser
            /\ posts' = (posts \ {post}) \cup {[post EXCEPT !.likes = LikesAfterLike(post.likes)]}
            /\ last' = Response("like_post", HTTP_200_OK, OkDetail,
                                get_current_user, tok, post_id, "", "", NoToken)
            /\ UNCHANGED <<dogs, comments, notices>>
    /\ UNCHANGED <<pending, nreg, now, tk, res, qr, liking>>

add_comment(tok, post_id) ==
    /\ Cardinality(comments) < MaxComments
    /\ IF get_current_user = NoUser
       THEN DependencyRaised("add_comment", tok, post_id)
       ELSE IF FindPost(post_id) = {}
       THEN /\ users' = UsersAfterGetCurrentUser
            /\ last' = Response("add_comment", HTTP_404_NOT_FOUND, PostNotFoundDetail,
                                get_current_user, tok, post_id, "", "", NoToken)
            /\ UNCHANGED <<dogs, posts, comments, notices>>
       ELSE /\ users' = UsersAfterGetCurrentUser
            /\ comments' = comments \cup {CommentRow(NewId(comments), post_id, get_current_user)}
            /\ last' = Response("add_comment",
                                FromOrmStatus(CommentResponseRequired, CommentAttributes),
                                FromOrmDetail(CommentResponseRequired, CommentAttributes),
                                get_current_user, tok, post_id, "", "", NoToken)
            /\ UNCHANGED <<dogs, posts, notices>>
    /\ UNCHANGED <<pending, nreg, now, tk, res, qr, liking>>

---------------------------------------------------------------------------
(* main.py: mark_notice_as_read, which has no dependency on the caller *)

\* db.query(Notice).filter(Notice.id == notice_id)
FindNotice(notice_id) == {n \in notices : n.id = notice_id}

\* notice.read = not notice.read
ReadToggled(read) == ~read

\* notice.read = True
ReadAfterMark(read) == TRUE

mark_notice_as_read(notice_id) ==
    LET found == FindNotice(notice_id)
        notice == CHOOSE n \in found : TRUE
    IN
    /\ IF found = {}
       THEN /\ last' = Response("mark_notice_as_read", HTTP_404_NOT_FOUND, NoticeNotFoundDetail,
                                NoUser, NoToken, notice_id, "", "", NoToken)
            /\ UNCHANGED notices
       ELSE /\ notices' = (notices \ {notice}) \cup {[notice EXCEPT !.read = ReadAfterMark(notice.read)]}
            /\ last' = Response("mark_notice_as_read", HTTP_200_OK, OkDetail,
                                NoUser, NoToken, notice_id, "", "", NoToken)
    /\ UNCHANGED <<users, dogs, posts, comments, pending, nreg, now, tk, res, qr, liking>>

---------------------------------------------------------------------------
(* The database file as the process finds it: it outlives the process, and  *)
(* no handler creates a notice.                                             *)

SeedEmails == {TestEmail, "a@b.com"}
SeedId(email) == IF email = TestEmail THEN 1 ELSE 2

SeedUsers(emails) == {UserRow(SeedId(e), e, "pw1", "pochi", 0) : e \in emails}
SeedDogs == {DogRow(SeedId(e), "pochi", SeedId(e), 0) : e \in SeedEmails}
SeedPosts == {PostRow(1, 0, SeedId(e)) : e \in SeedEmails}
SeedNotices == {NoticeRow(id, read) : id \in NoticeIds, read \in BOOLEAN}

\* The rows of a table whose foreign key names a stored user.
OwnedBy(rows, us) == {r \in rows : \E u \in us : u.id = r.owner_id}
PostedBy(rows, us) == {r \in rows : \E u \in us : u.id = r.user_id}

\* id is the primary key of its table.
UniqueIds(rows) == \A r1, r2 \in rows : r1.id = r2.id => r1 = r2

NoVerify == [token |-> NoToken, at |-> 0]
NoResult == [raised |-> FALSE, value |-> None]
NoQr ==
    [op |-> "none", src |-> "", user_id |-> 0, dog_ids |-> <<>>, payload |-> [t |-> "None"],
     text |-> <<>>, out |-> [raised |-> FALSE, value |-> [t |-> "None"]]]

\* The like-post calls, none of them started.
Calls == 1..MaxCalls
LikeCall(pc, post_id, seen, status) ==
    [pc |-> pc, post_id |-> post_id, seen |-> seen, status |-> status]
NoLiking == [c \in Calls |-> LikeCall("idle", 0, 0, InProgress)]

Idle ==
    /\ pending = {}
    /\ nreg = 0
    /\ last = NoRequest
    /\ now = 0
    /\ tk = NoVerify
    /\ res = NoResult
    /\ qr = NoQr
    /\ liking = NoLiking

---------------------------------------------------------------------------
(* Registration, login and the caller's own profile *)

Init ==
    /\ \E emails \in SUBSET SeedEmails : users = SeedUsers(emails)
    /\ dogs = OwnedBy(SeedDogs, users)
    /\ posts = {}
    /\ comments = {}
    /\ notices = {}
    /\ Idle

Next ==
    \/ \E email \in Emails, password \in RegisterPasswords : register(email, password)
    \/ \E r \in pending : register_create(r)
    \/ \E email \in Emails, password \in Passwords : login(email, password)
    \/ \E tok \in BearerTokens : get_current_user_info(tok)
    \/ \E tok \in BearerTokens, full_name \in Names : update_user_profile(tok, full_name)

Spec == Init /\ [][Next]_vars

---------------------------------------------------------------------------
(* The dogs of the caller *)

InitDogs ==
    /\ \E emails \in SUBSET SeedEmails : users = SeedUsers(emails)
    /\ dogs \in SUBSET OwnedBy(SeedDogs, users)
    /\ posts = {}
    /\ comments = {}
    /\ notices = {}
    /\ Idle

NextDogs ==
    \/ \E tok \in BearerTokens : get_user_dogs(tok)
    \/ \E tok \in BearerTokens, name \in Names : add_dog(tok, name)
    \/ \E tok \in BearerTokens, dog_id \in DogIds, name \in Names : update_dog(tok, dog_id, name)
    \/ \E tok \in BearerTokens, dog_id \in DogIds : delete_dog(tok, dog_id)

SpecDogs == InitDogs /\ [][NextDogs]_vars

---------------------------------------------------------------------------
(* The handlers that write table "dogs": register and the dog handlers *)
(* The dependency does not read the bearer token, so the calls carry none. *)
(* register is called with an email that no stored user has.             *)

NextOwners ==
    \/ \E email \in Emails \ SeedEmails, password \in RegisterPasswords :
          register(email, password)
    \/ \E r \in pending : register_create(r)
    \/ \E name \in Names : add_dog(NoToken, name)
    \/ \E dog_id \in DogIds, name \in Names : update_dog(NoToken, dog_id, name)
    \/ \E dog_id \in DogIds : delete_dog(NoToken, dog_id)

SpecOwners == InitDogs /\ [][NextOwners]_vars

---------------------------------------------------------------------------
(* Posts, likes and comments *)

InitPosts ==
    /\ \E emails \in SUBSET SeedEmails : users = SeedUsers(emails)
    /\ dogs = {}
    /\ posts \in {ps \in SUBSET PostedBy(SeedPosts, users) : UniqueIds(ps)}
    /\ comments = {}
    /\ notices = {}
    /\ Idle

NextPosts ==
    \/ \E tok \in BearerTokens : create_post(tok)
    \/ \E tok \in BearerTokens, post_id \in PostIds : like_post(tok, post_id)
    \/ \E tok \in BearerTokens, post_id \in PostIds : add_comment(tok, post_id)

SpecPosts == InitPosts /\ [][NextPosts]_vars

---------------------------------------------------------------------------
(* like_post called by clients whose requests are served at the same time  *)
(* by separate workers on one database.  Each call has its own session: it *)
(* loads the post, adds 1 to the value it loaded, and its commit writes     *)
(* that value with UPDATE posts SET likes = <value> WHERE id = <post_id>.   *)
(* Nothing in the handler locks the row between the two statements.        *)

\* An UPDATE that adds 1 to the stored value, whatever the call loaded.
LikesCommittedInPlace(seen, stored) == LikesAfterLike(stored)

\* What the commit writes: 1 more than the value the call loaded.
LikesCommitted(seen, stored) == LikesAfterLike(seen)

\* Lines 230-237: the dependency and the query.
like_read(c, tok, post_id) ==
    LET found == FindPost(post_id)
        post == CHOOSE p \in found : TRUE
    IN
    /\ liking[c].pc = "idle"
    /\ \A p \in found : p.likes < MaxLikes
    /\ IF get_current_user = NoUser
       THEN /\ DependencyRaised("like_post", tok, post_id)
            /\ liking' = [liking EXCEPT ![c] = LikeCall("done", post_id, 0,
                                                HTTP_500_INTERNAL_SERVER_ERROR)]
       ELSE IF found = {}
       THEN /\ users' = UsersAfterGetCurrentUser
            /\ last' = Response("like_post", HTTP_404_NOT_FOUND, PostNotFoundDetail,
                                get_current_user, tok, post_id, "", "", NoToken)
            /\ liking' = [liking EXCEPT ![c] = LikeCall("done", post_id, 0,
                                                        HTTP_404_NOT_FOUND)]
            /\ UNCHANGED <<dogs, posts, comments, notices>>
       ELSE /\ users' = UsersAfterGetCurrentUser
            /\ liking' = [liking EXCEPT ![c] = LikeCall("read", post_id, post.likes,
                                                        InProgress)]
            /\ UNCHANGED <<dogs, posts, comments, notices, last>>
    /\ UNCHANGED <<pending, nreg, now, tk, res, qr>>

\* Lines 240-242: the increment, the commit and the response.
like_write(c) ==
    LET post == CHOOSE p \in posts : p.id = liking[c].post_id IN
    /\ liking[c].pc = "read"
    /\ posts' = (posts \ {post})
                    \cup {[post EXCEPT !.likes = LikesCommitted(liking[c].seen, post.likes)]}
    /\ liking' = [liking EXCEPT ![c].pc = "done", ![c].status = HTTP_200_OK]
    /\ last' = Response("like_post", HTTP_200_OK, OkDetail, get_current_user, NoToken,
                        liking[c].post_id, "", "", NoToken)
    /\ UNCHANGED <<users, dogs, comments, notices, pending, nreg, now, tk, res, qr>>

InitLikes ==
    /\ \E emails \in SUBSET SeedEmails : users = SeedUsers(emails)
    /\ dogs = {}
    /\ posts \in {ps \in SUBSET PostedBy(SeedPosts, users) : UniqueIds(ps)}
    /\ comments = {}
    /\ notices = {}
    /\ Idle

NextLikes ==
    \/ \E c \in Calls, tok \in BearerTokens, post_id \in PostIds : like_read(c, tok, post_id)
    \/ \E c \in Calls : like_write(c)
    \/ \E tok \in BearerTokens : create_post(tok)

SpecLikes == InitLikes /\ [][NextLikes]_vars

---------------------------------------------------------------------------
(* Notices *)

InitNotices ==
    /\ users = {}
    /\ dogs = {}
    /\ posts = {}
    /\ comments = {}
    /\ notices \in {ns \in SUBSET SeedNotices : UniqueIds(ns)}
    /\ Idle

\* Every handler, on a database in which only notices are stored.
NextNotices ==
    \/ \E notice_id \in NoticeIds \cup {NewId(SeedNotices)} : mark_notice_as_read(notice_id)
    \/ Next
    \/ NextDogs
    \/ NextPosts

SpecNotices == InitNotices /\ [][NextNotices]_vars

---------------------------------------------------------------------------
(* auth.py: tokens over time.  A client holds the token last issued, the    *)
(* clock advances, and verify_token is handed that token or one that the   *)
(* process did not sign.                                                    *)

\* Tokens create_access_token did not make: a wrong signature, text that is no
\* JWT, and a signed payload without "sub".
ForeignTokens ==
    {[sub |-> TestEmail, exp |-> MaxNow, sig |-> "forged", form |-> "jwt"],
     [sub |-> TestEmail, exp |-> MaxNow, sig |-> SECRET_KEY, form |-> "garbage"],
     [sub |-> NoSub, exp |-> MaxNow, sig |-> SECRET_KEY, form |-> "jwt"]}

\* The lifetimes a caller passes: none, or a number of minutes.
Deltas == {NoDelta, 1, 2}

Tick ==
    /\ now < MaxNow
    /\ now' = now + 1
    /\ UNCHANGED <<users, dogs, posts, comments, notices, pending, nreg, last, tk, res, qr, liking>>

\* A call create_access_token(data={"sub": sub}, expires_delta).
issue(sub, expires_delta) ==
    /\ last' = Response("create_access_token", HTTP_200_OK, OkDetail, NoUser, NoToken,
                        expires_delta, sub, "", create_access_token(sub, expires_delta, now))
    /\ UNCHANGED <<users, dogs, posts, comments, notices, pending, nreg, now, tk, res, qr, liking>>

\* A call verify_token(token) at the current time.
verify(token) ==
    /\ tk' = [token |-> token, at |-> now]
    /\ res' = verify_token(token, now)
    /\ UNCHANGED <<users, dogs, posts, comments, notices, pending, nreg, last, now, qr, liking>>

InitToken ==
    /\ users = {}
    /\ dogs = {}
    /\ posts = {}
    /\ comments = {}
    /\ notices = {}
    /\ Idle

NextToken ==
    \/ Tick
    \/ \E sub \in {TestEmail, "a@b.com"}, expires_delta \in Deltas : issue(sub, expires_delta)
    \/ \E token \in ForeignTokens \cup {t \in {last.ret} : last.op = "create_access_token"} :
          verify(token)

SpecToken == InitToken /\ [][NextToken]_vars

---------------------------------------------------------------------------
(* utils.py: the entry payload.  A Python value is a tagged record; a text  *)
(* is a sequence of characters, except that the body of a string and the    *)
(* word None are one element each.                                          *)

PyInt(n) == [t |-> "int", n |-> n]
\* A string is the sequence of the words it is made of.
PyStr(s) == [t |-> "str", s |-> s]
PyNone == [t |-> "None"]
PyList(items) == [t |-> "list", items |-> items]
\* A dict is the sequence of its <<key, value>> pairs, in insertion order.
PyDict(items) == [t |-> "dict", items |-> items]

Digits == <<"0", "1", "2", "3", "4", "5", "6", "7", "8", "9">>
IsDigit(c) == \E i \in 1..Len(Digits) : Digits[i] = c
DigitValue(c) == (CHOOSE i \in 1..Len(Digits) : Digits[i] = c) - 1
Punctuation == {"-", "'", "{", "}", "[", "]", ",", ":", " "}

\* repr() of an int, a str without quotes or backslashes, None, a list, a dict.
RECURSIVE NatRepr(_)
NatRepr(n) ==
    IF n < 10 THEN <<Digits[n + 1]>>
    ELSE NatRepr(n \div 10) \o <<Digits[(n % 10) + 1]>>

IntRepr(n) == IF n < 0 THEN <<"-">> \o NatRepr(-n) ELSE NatRepr(n)

StrRepr(s) == <<"'">> \o s \o <<"'">>

RECURSIVE Repr(_), ReprItems(_), ReprPairs(_)
Repr(v) ==
    CASE v.t = "int" -> IntRepr(v.n)
      [] v.t = "str" -> StrRepr(v.s)
      [] v.t = "None" -> <<"None">>
      [] v.t = "list" -> <<"[">> \o ReprItems(v.items) \o <<"]">>
      [] v.t = "dict" -> <<"{">> \o ReprPairs(v.items) \o <<"}">>

ReprItems(items) ==
    IF items = <<>> THEN <<>>
    ELSE IF Len(items) = 1 THEN Repr(items[1])
    ELSE Repr(items[1]) \o <<",", " ">> \o ReprItems(Tail(items))

ReprPairs(items) ==
    IF items = <<>> THEN <<>>
    ELSE LET pair == Repr(items[1][1]) \o <<":", " ">> \o Repr(items[1][2]) IN
         IF Len(items) = 1 THEN pair
         ELSE pair \o <<",", " ">> \o ReprPairs(Tail(items))

\* data with "dog_ids": dog_ids[::-1].
EntryDataDogIdsReversed(user_id, dog_ids, timestamp) ==
    PyDict(<< <<PyStr(<<"user_id">>), PyInt(user_id)>>,
              <<PyStr(<<"dog_ids">>),
                PyList([i \in 1..Len(dog_ids) |-> PyInt(dog_ids[Len(dog_ids) + 1 - i])])>>,
              <<PyStr(<<"timestamp">>), PyStr(timestamp)>>,
              <<PyStr(<<"type">>), PyStr(<<"dogrun_entry">>)>> >>)

\* data = {"user_id": ..., "dog_ids": ..., "timestamp": ..., "type": "dogrun_entry"}
EntryData(user_id, dog_ids, timestamp) ==
    PyDict(<< <<PyStr(<<"user_id">>), PyInt(user_id)>>,
              <<PyStr(<<"dog_ids">>), PyList([i \in 1..Len(dog_ids) |-> PyInt(dog_ids[i])])>>,
              <<PyStr(<<"timestamp">>), PyStr(timestamp)>>,
              <<PyStr(<<"type">>), PyStr(<<"dogrun_entry">>)>> >>)

\* str(data); timestamp is datetime.now().isoformat().
generate_qr_code_data(user_id, dog_ids, timestamp) ==
    Repr(EntryData(user_id, dog_ids, timestamp))

\* ast.literal_eval: [ok, value, rest]; ok is FALSE where it raises ValueError or
\* SyntaxError.
ParseFailed == [ok |-> FALSE, value |-> PyNone, rest |-> <<>>]
Parsed(value, rest) == [ok |-> TRUE, value |-> value, rest |-> rest]

RECURSIVE SkipSpaces(_)
SkipSpaces(s) == IF s # <<>> /\ Head(s) = " " THEN SkipSpaces(Tail(s)) ELSE s

RECURSIVE ParseNat(_, _)
ParseNat(s, acc) ==
    IF s # <<>> /\ IsDigit(Head(s))
    THEN ParseNat(Tail(s), 10 * acc + DigitValue(Head(s)))
    ELSE Parsed(PyInt(acc), s)

RECURSIVE ParseStrBody(_, _)
ParseStrBody(s, acc) ==
    IF s = <<>> THEN ParseFailed
    ELSE IF Head(s) = "'" THEN Parsed(PyStr(acc), Tail(s))
    ELSE ParseStrBody(Tail(s), Append(acc, Head(s)))

\* d[key] = value on a dict under construction: a repeated key keeps its place.
RECURSIVE DictSet(_, _, _)
DictSet(items, key, value) ==
    IF items = <<>> THEN << <<key, value>> >>
    ELSE IF items[1][1] = key THEN << <<key, value>> >> \o Tail(items)
    ELSE <<items[1]>> \o DictSet(Tail(items), key, value)

RECURSIVE ParseValue(_), ParseItems(_, _), ParsePairs(_, _)
ParseValue(text) ==
    LET s == SkipSpaces(text) IN
    IF s = <<>> THEN ParseFailed
    ELSE IF IsDigit(Head(s)) THEN ParseNat(s, 0)
    ELSE IF Head(s) = "-"
    THEN IF Tail(s) # <<>> /\ IsDigit(Head(Tail(s)))
         THEN LET p == ParseNat(Tail(s), 0) IN Parsed(PyInt(-p.value.n), p.rest)
         ELSE ParseFailed
    ELSE IF Head(s) = "'" THEN ParseStrBody(Tail(s), <<>>)
    ELSE IF Head(s) = "None" THEN Parsed(PyNone, Tail(s))
    ELSE IF Head(s) = "[" THEN ParseItems(Tail(s), <<>>)
    ELSE IF Head(s) = "{" THEN ParsePairs(Tail(s), <<>>)
    ELSE ParseFailed

\* After "[" or after a comma: "]" ends the list, else an item follows.
ParseItems(text, acc) ==
    LET s == SkipSpaces(text) IN
    IF s = <<>> THEN ParseFailed
    ELSE IF Head(s) = "]" THEN Parsed(PyList(acc), Tail(s))
    ELSE LET item == ParseValue(s)
             after == SkipSpaces(item.rest)
         IN IF ~item.ok \/ after = <<>> THEN ParseFailed
            ELSE IF Head(after) = "," THEN ParseItems(Tail(after), Append(acc, item.value))
            ELSE IF Head(after) = "]" THEN Parsed(PyList(Append(acc, item.value)), Tail(after))
            ELSE ParseFailed

\* After "{" or after a comma: "}" ends the dict, else key ":" value follows.
ParsePairs(text, acc) ==
    LET s == SkipSpaces(text) IN
    IF s = <<>> THEN ParseFailed
    ELSE IF Head(s) = "}" THEN Parsed(PyDict(acc), Tail(s))
    ELSE LET key == ParseValue(s)
             colon == SkipSpaces(key.rest)
         IN IF ~key.ok \/ colon = <<>> \/ Head(colon) # ":" THEN ParseFailed
            ELSE LET value == ParseValue(Tail(colon))
                     after == SkipSpaces(value.rest)
                 IN IF ~value.ok \/ after = <<>> THEN ParseFailed
                    ELSE IF Head(after) = ","
                    THEN ParsePairs(Tail(after), DictSet(acc, key.value, value.value))
                    ELSE IF Head(after) = "}"
                    THEN Parsed(PyDict(DictSet(acc, key.value, value.value)), Tail(after))
                    ELSE ParseFailed

\* The whole text must be one literal.
literal_eval(text) ==
    LET p == ParseValue(text) IN
    IF p.ok /\ SkipSpaces(p.rest) = <<>> THEN p ELSE ParseFailed


RequiredKeys == <<"user_id", "dog_ids", "timestamp", "type">>

\* "key in parsed_data" raises TypeError for a value that is no container.
InRaises(v) == v.t \in {"int", "None"}

\* key in parsed_data: a key of a dict, an item of a list, a part of a string.
In(key, v) ==
    CASE v.t = "dict" -> \E i \in 1..Len(v.items) :
                            v.items[i][1].t = "str" /\ v.items[i][1].s = <<key>>
      [] v.t = "list" -> \E i \in 1..Len(v.items) :
                            v.items[i].t = "str" /\ v.items[i].s = <<key>>
      [] v.t = "str" -> \E i \in 1..Len(v.s) : v.s[i] = key
      [] OTHER -> FALSE

\* parsed_data[key] of a dict that has the key.
GetItem(v, key) ==
    LET i == CHOOSE i \in 1..Len(v.items) :
                 v.items[i][1].t = "str" /\ v.items[i][1].s = <<key>>
    IN v.items[i][2]

IsStr(v, word) == v.t = "str" /\ v.s = <<word>>

\* validate_qr_code_data: [raised |-> an exception other than ValueError and
\* SyntaxError left the function, value |-> what it returned].
validate_qr_code_data(data) ==
    LET parsed == literal_eval(data)
        parsed_data == parsed.value
    IN
    IF ~parsed.ok THEN [raised |-> FALSE, value |-> PyNone]
    ELSE IF InRaises(parsed_data) THEN [raised |-> TRUE, value |-> PyNone]
    ELSE IF ~(\A k \in 1..Len(RequiredKeys) : In(RequiredKeys[k], parsed_data))
    THEN [raised |-> FALSE, value |-> PyNone]
    ELSE IF parsed_data.t # "dict" THEN [raised |-> TRUE, value |-> PyNone]
    ELSE IF ~IsStr(GetItem(parsed_data, "type"), "dogrun_entry")
    THEN [raised |-> FALSE, value |-> PyNone]
    ELSE [raised |-> FALSE, value |-> parsed_data]

---------------------------------------------------------------------------
(* The codec on bounded inputs: an entry payload is generated from a user   *)
(* id and a list of dog ids, or a dictionary is written out as text, and    *)
(* the text is validated.                                                   *)

UserIds == {-3, 0, 7, 12}
DogIdValues == {1, 25}
DogIdLists == UNION {[1..n -> DogIdValues] : n \in 0..MaxDogIds}
Timestamps == {<<"2026-11-02T11:03:00.123456">>, <<"2026-11-02T11:04:00">>}
TypeTags == {<<"dogrun_entry">>, <<"other">>}

\* The pairs of EntryData kept where keep[i] holds, with the given type tag.
RECURSIVE Keep(_, _)
Keep(items, keep) ==
    IF items = <<>> THEN <<>>
    ELSE (IF keep[1] THEN <<items[1]>> ELSE <<>>) \o Keep(Tail(items), Tail(keep))

Payload(keep, tag) ==
    LET full == EntryData(7, <<1, 25>>, <<"2026-11-02T11:04:00">>).items
        tagged == [full EXCEPT ![4] = <<PyStr(<<"type">>), PyStr(tag)>>]
    IN PyDict(Keep(tagged, keep))

QrState(op, src, user_id, dog_ids, payload, text, out) ==
    [op |-> op, src |-> src, user_id |-> user_id, dog_ids |-> dog_ids,
     payload |-> payload, text |-> text, out |-> out]

NoOut == [raised |-> FALSE, value |-> PyNone]

generate(user_id, dog_ids, timestamp) ==
    /\ qr' = QrState("text", "generate_qr_code_data", user_id, dog_ids, PyNone,
                     generate_qr_code_data(user_id, dog_ids, timestamp), NoOut)
    /\ UNCHANGED <<users, dogs, posts, comments, notices, pending, nreg, last, now, tk, res, liking>>

write(keep, tag) ==
    /\ qr' = QrState("text", "str", 0, <<>>, Payload(keep, tag),
                     Repr(Payload(keep, tag)), NoOut)
    /\ UNCHANGED <<users, dogs, posts, comments, notices, pending, nreg, last, now, tk, res, liking>>

\* Texts of literals that are no dictionary: numbers, None, lists and strings,
\* two of them holding the four key names.
Literals ==
    {PyInt(7), PyInt(-3), PyNone, PyList(<<>>), PyList(<<PyInt(1), PyInt(25)>>),
     PyStr(<<"abc">>), PyStr(RequiredKeys),
     PyList([k \in 1..Len(RequiredKeys) |-> PyStr(<<RequiredKeys[k]>>)])}

scan(literal) ==
    /\ qr' = QrState("text", "literal", 0, <<>>, literal, Repr(literal), NoOut)
    /\ UNCHANGED <<users, dogs, posts, comments, notices, pending, nreg, last, now, tk, res, liking>>

validate ==
    /\ qr.op = "text"
    /\ qr' = [qr EXCEPT !.op = "validated", !.out = validate_qr_code_data(qr.text)]
    /\ UNCHANGED <<users, dogs, posts, comments, notices, pending, nreg, last, now, tk, res, liking>>

InitQr ==
    /\ users = {}
    /\ dogs = {}
    /\ posts = {}
    /\ comments = {}
    /\ notices = {}
    /\ Idle

NextQr ==
    \/ \E user_id \in UserIds, dog_ids \in DogIdLists, timestamp \in Timestamps :
          generate(user_id, dog_ids, timestamp)
    \/ \E keep \in [1..4 -> BOOLEAN], tag \in TypeTags : write(keep, tag)
    \/ \E literal \in Literals : scan(literal)
    \/ validate

SpecQr == InitQr /\ [][NextQr]_vars

---------------------------------------------------------------------------
(* Properties *)

UniqueEmails == \A u1, u2 \in users : u1.email = u2.email => u1 = u2

\* C1: a register call with an email that is already stored fails with the
\* Conflict status and adds no User and no Dog, and no two stored users ever
\* share an email.
C1_RegisterDuplicateIsConflict ==
    /\ [][(last'.op = "register" /\ UsersByEmail(last'.email) # {})
            => /\ last'.status = HTTP_409_CONFLICT
               /\ users' = users
               /\ dogs' = dogs]_vars
    /\ []UniqueEmails

\* What remains of C1 with the status the code answers: a register call with a
\* stored email is refused and adds no row, and emails stay unique.
C1_RegisterDuplicateIsRefused ==
    /\ [][(last'.op = "register" /\ UsersByEmail(last'.email) # {})
            => /\ last'.status = HTTP_400_BAD_REQUEST
               /\ last'.detail = DuplicateEmailDetail
               /\ users' = users
               /\ dogs' = dogs
               /\ pending' = pending]_vars
    /\ []UniqueEmails

\* C2: in every state, also between the steps of a register call and after a
\* register call that failed, a register call's User is stored if and only if
\* that call's Dog is stored.
C2_RegisterAtomic ==
    /\ \A u \in users : u.reg # 0 => \E d \in dogs : d.reg = u.reg /\ d.owner_id = u.id
    /\ \A d \in dogs : d.reg # 0 => \E u \in users : u.reg = d.reg /\ d.owner_id = u.id

\* A register call passed the duplicate check and then failed: neither its
\* User nor its Dog is stored.
C2_Witness ==
    /\ last.op = "register_create"
    /\ last.status = HTTP_500_INTERNAL_SERVER_ERROR
    /\ UsersByEmail(last.email) = {}
    /\ \A d \in dogs : d.reg # last.id

\* C3: login answers 200 with a fresh token whose subject is the email exactly
\* when the email is that of a stored user whose hash the password verifies
\* against; every other login gets the same 401 and the same message, whether
\* the email is unknown or the password wrong; login changes no stored row.
C3_Login ==
    /\ [](last.op = "login" =>
            LET ok == \E u \in users : /\ u.email = last.email
                                       /\ verify_password(last.password, u.hashed_password)
            IN /\ last.status = HTTP_200_OK <=> ok
               /\ ok => /\ last.ret = create_access_token(last.email, NoDelta, now)
                        /\ verify_token(last.ret, now).value = last.email
               /\ ~ok => /\ last.status = HTTP_401_UNAUTHORIZED
                         /\ last.detail = LoginFailedDetail
                         /\ last.ret = NoToken)
    /\ [][last'.op = "login" =>
            UNCHANGED <<users, dogs, posts, comments, notices, pending>>]_vars

\* A login with a stored email and a wrong password was refused.
C3_Witness ==
    /\ last.op = "login"
    /\ last.status = HTTP_401_UNAUTHORIZED
    /\ \E u \in users : /\ u.email = last.email
                        /\ ~verify_password(last.password, u.hashed_password)

\* C4: a protected handler acts as the stored user whose email is the subject
\* of the request's bearer token, and as nobody when the token is not valid.
C4_CallerIsTokenSubject ==
    last.op \in ProtectedOps =>
        LET subject == verify_token(last.tok, now).value IN
        IF subject = None
        THEN last.caller = NoUser
        ELSE \E u \in users : u.id = last.caller /\ u.email = subject

\* C5: when no stored user matches the identity that is resolved, the request
\* is refused as unauthenticated (401, the message of a bad token) and the
\* stored users are unchanged.
C5_NoMatchIsUnauthenticated ==
    [][(last'.op \in ProtectedOps /\ TestUsers = {})
         => /\ last'.status = HTTP_401_UNAUTHORIZED
            /\ last'.detail = AuthenticationErrorDetail
            /\ users' = users]_vars

\* C6: for a resolved caller, update dog and delete dog with a dog id that is
\* not stored, or is stored with another owner, answer 404 and leave every
\* stored dog as it is; a stored dog is changed or removed only by an update or
\* delete call whose caller is its owner.
C6_DogOwnerOnly ==
    [][/\ (/\ last'.op \in {"update_dog", "delete_dog"}
           /\ last'.caller # NoUser
           /\ ~\E d \in dogs : d.id = last'.id /\ d.owner_id = last'.caller)
          => /\ last'.status = HTTP_404_NOT_FOUND
             /\ last'.detail = DogNotFoundDetail
             /\ dogs' = dogs
       /\ \A d \in dogs : d \notin dogs' =>
             /\ last'.op \in {"update_dog", "delete_dog"}
             /\ last'.status = HTTP_200_OK
             /\ last'.id = d.id
             /\ last'.caller = d.owner_id]_vars

\* An update of a dog that is stored with another owner was answered 404.
C6_Witness ==
    /\ last.op = "update_dog"
    /\ last.status = HTTP_404_NOT_FOUND
    /\ \E d \in dogs : d.id = last.id /\ d.owner_id # last.caller

\* C7: a like-post call that succeeds raises the post's like count by exactly
\* 1, no step lowers the like count of a post, and a like-post call with a post
\* id that is not stored answers 404 and changes no post.
C7_LikeAddsOne ==
    [][/\ (last'.op = "like_post" /\ last'.status = HTTP_200_OK)
          => \E p \in posts : /\ p.id = last'.id
                              /\ posts' = (posts \ {p}) \cup {[p EXCEPT !.likes = p.likes + 1]}
       /\ \A p \in posts : \A q \in posts' : q.id = p.id => q.likes >= p.likes
       /\ (last'.op = "like_post" /\ ~\E p \in posts : p.id = last'.id)
          => /\ last'.status = HTTP_404_NOT_FOUND
             /\ posts' = posts]_vars

\* What remains of C7 when the caller is resolved.
C7_LikeAddsOneForCaller ==
    [][/\ (last'.op = "like_post" /\ last'.status = HTTP_200_OK)
          => \E p \in posts : /\ p.id = last'.id
                              /\ posts' = (posts \ {p}) \cup {[p EXCEPT !.likes = p.likes + 1]}
       /\ \A p \in posts : \A q \in posts' : q.id = p.id => q.likes >= p.likes
       /\ (/\ last'.op = "like_post"
           /\ last'.caller # NoUser
           /\ ~\E p \in posts : p.id = last'.id)
          => /\ last'.status = HTTP_404_NOT_FOUND
             /\ posts' = posts]_vars

\* C8: mark-notice-read on a stored notice answers 200 and leaves it read,
\* whether it was read before or not; no step of any handler turns a read
\* notice into an unread one; on an id that is not stored it answers 404 and
\* changes no notice.
C8_MarkReadIdempotent ==
    [][/\ (last'.op = "mark_notice_as_read" /\ \E n \in notices : n.id = last'.id)
          => /\ last'.status = HTTP_200_OK
             /\ \E n \in notices : /\ n.id = last'.id
                                   /\ notices' = (notices \ {n}) \cup {NoticeRow(n.id, TRUE)}
       /\ \A n \in notices : n.read => n \in notices'
       /\ (last'.op = "mark_notice_as_read" /\ ~\E n \in notices : n.id = last'.id)
          => /\ last'.status = HTTP_404_NOT_FOUND
             /\ last'.detail = NoticeNotFoundDetail
             /\ notices' = notices]_vars

\* A notice was marked read and is read.
C8_Witness ==
    /\ last.op = "mark_notice_as_read"
    /\ last.status = HTTP_200_OK
    /\ \E n \in notices : n.id = last.id /\ n.read

\* C9: verify_token never raises; handed the token create_access_token made,
\* it returns the subject that went in while the time is not past the token's
\* expiry, and None after it; handed a token with a wrong signature, a text
\* that is no token or a payload without a subject, it returns None.
C9_VerifyToken ==
    /\ ~res.raised
    /\ tk.token \in ForeignTokens => res.value = None
    /\ (last.op = "create_access_token" /\ tk.token = last.ret)
       => IF tk.at <= last.ret.exp
          THEN res.value = last.email
          ELSE res.value = None

\* A token was verified after its expiry and found invalid.
C9_Witness ==
    /\ last.op = "create_access_token"
    /\ tk.token = last.ret
    /\ tk.at > last.ret.exp
    /\ res.value = None

\* The key is a key of the dict payload.
HasKey(payload, key) ==
    \E i \in 1..Len(payload.items) : payload.items[i][1] = PyStr(<<key>>)

\* C10: validating the text generated from a user id and a list of dog ids
\* returns a payload with that user id and those dog ids in that order;
\* validating the text of a dictionary that lacks one of the four keys, or whose
\* type is not "dogrun_entry", returns None.
C10_QrRoundTrip ==
    qr.op = "validated" =>
        /\ qr.src = "generate_qr_code_data"
           => /\ ~qr.out.raised
              /\ qr.out.value.t = "dict"
              /\ HasKey(qr.out.value, "user_id")
              /\ HasKey(qr.out.value, "dog_ids")
              /\ GetItem(qr.out.value, "user_id") = PyInt(qr.user_id)
              /\ GetItem(qr.out.value, "dog_ids")
                    = PyList([i \in 1..Len(qr.dog_ids) |-> PyInt(qr.dog_ids[i])])
        /\ (/\ qr.src = "str"
            /\ \/ \E k \in 1..Len(RequiredKeys) : ~HasKey(qr.payload, RequiredKeys[k])
               \/ GetItem(qr.payload, "type") # PyStr(<<"dogrun_entry">>))
           => /\ ~qr.out.raised
              /\ qr.out.value = PyNone

\* A generated text with two different dog ids was validated.
C10_Witness ==
    /\ qr.op = "validated"
    /\ qr.src = "generate_qr_code_data"
    /\ Len(qr.dog_ids) = 2
    /\ qr.dog_ids[1] # qr.dog_ids[2]
    /\ qr.out.value.t = "dict"

\* C11: validate_qr_code_data never lets an exception out: for every text,
\* also the text of a literal that is no dictionary (a number, None, a list, a
\* string), the call returns, and returns None for such a literal.
C11_ValidateNeverRaises ==
    qr.op = "validated" =>
        /\ ~qr.out.raised
        /\ qr.src = "literal" => qr.out.value = PyNone

\* C12: for a resolved caller, add comment with a post id that is not stored
\* answers 404 and stores no comment; every comment that is stored is stored
\* by an add-comment call, references a post that was stored when the call
\* was made, and has the caller of that call as its author.
C12_CommentOnStoredPost ==
    [][/\ (/\ last'.op = "add_comment"
           /\ last'.caller # NoUser
           /\ ~\E p \in posts : p.id = last'.id)
          => /\ last'.status = HTTP_404_NOT_FOUND
             /\ last'.detail = PostNotFoundDetail
             /\ comments' = comments
       /\ \A c \in comments' \ comments :
             /\ last'.op = "add_comment"
             /\ c.post_id = last'.id
             /\ \E p \in posts : p.id = c.post_id
             /\ last'.caller # NoUser
             /\ c.user_id = last'.caller
             /\ \E u \in users : u.id = c.user_id]_vars

\* An add-comment call of a resolved caller was answered 404 while another
\* post is stored.
C12_Witness ==
    /\ last.op = "add_comment"
    /\ last.caller # NoUser
    /\ last.status = HTTP_404_NOT_FOUND
    /\ posts # {}
    /\ comments = {}
    /\ ~\E p \in posts : p.id = last.id

\* C13: a token that register or login issues expires
\* ACCESS_TOKEN_EXPIRE_MINUTES (30) minutes after the call, not after the 15
\* minutes create_access_token takes when it is given no lifetime.
C13_TokensLastThirtyMinutes ==
    (last.op \in {"login", "register_create"} /\ last.status = HTTP_200_OK)
        => /\ last.ret # NoToken
           /\ last.ret.exp = now + ACCESS_TOKEN_EXPIRE_MINUTES

\* C14: a like-post call writes 1 more than the like count it read, whatever
\* the stored count has become since; so two calls on one post that both read
\* before either writes leave the count only 1 higher (the state of
\* C14_Witness).
C14_LikeWritesWhatItRead ==
    [][\A c \in Calls :
          (liking[c].pc = "read" /\ liking'[c].pc = "done")
             => /\ liking'[c].status = HTTP_200_OK
                /\ \E p \in posts' : /\ p.id = liking[c].post_id
                                      /\ p.likes = liking[c].seen + 1]_vars

\* Two calls on the same post both read the same count, both were answered
\* 200, and the post's count is 1 higher than the count they read.
C14_Witness ==
    \E c1, c2 \in Calls :
        /\ c1 # c2
        /\ liking[c1].pc = "done" /\ liking[c1].status = HTTP_200_OK
        /\ liking[c2].pc = "done" /\ liking[c2].status = HTTP_200_OK
        /\ liking[c1].post_id = liking[c2].post_id
        /\ liking[c1].seen = liking[c2].seen
        /\ \E p \in posts : /\ p.id = liking[c1].post_id
                             /\ p.likes = liking[c1].seen + 1

\* C15: in every state that register, add dog, update dog and delete dog
\* reach, the owner of each stored dog is the id of a stored user; a dog that
\* a step adds is added by register, with the user that the same call added
\* as its owner, or by add dog, with the caller as its owner; and no step
\* changes the owner of a stored dog.
C15_DogOwnerStored ==
    /\ [](\A d \in dogs : \E u \in users : u.id = d.owner_id)
    /\ [][/\ \A d \in dogs' :
              (~\E e \in dogs : e.id = d.id) =>
                 \/ /\ last'.op = "add_dog"
                    /\ last'.caller # NoUser
                    /\ d.id = last'.id
                    /\ d.owner_id = last'.caller
                 \/ /\ last'.op = "register_create"
                    /\ d.reg = last'.id
                    /\ \E u \in users' \ users : u.reg = d.reg /\ u.id = d.owner_id
          /\ \A d \in dogs : \A e \in dogs' : e.id = d.id => e.owner_id = d.owner_id]_vars

\* With two users stored, an add-dog call stored a dog that the caller owns,
\* after a register call had passed its duplicate check.
C15_Witness ==
    /\ last.op = "add_dog"
    /\ last.status = HTTP_200_OK
    /\ Cardinality(users) = 2
    /\ nreg > 0
    /\ \E d \in dogs : d.id = last.id /\ d.owner_id = last.caller

====
